---- MODULE Spec2Model ----
(***************************************************************************)
(* Vinted Market Scout (src/app.py): the scrape-and-price-analysis         *)
(* pipeline.  search_vinted fetches the result pages one at a time and     *)
(* extracts the listings; analyze_prices aggregates their prices;          *)
(* resale_estimate_and_label and market_saturation_label classify.         *)
(*                                                                         *)
(* Numbers.  Python floats are modelled as exact rationals <<"num",n,d>>   *)
(* with d > 0 (a price parsed from decimal text has d a power of ten, an   *)
(* average has d multiplied by the count).  Comparisons are by cross       *)
(* multiplication.  Binary rounding of the floats is not modelled.         *)
(* Text is a sequence of one-character strings.                            *)
(***************************************************************************)
EXTENDS Integers, Sequences, FiniteSets, TLC

VARIABLES
    pc,          \* position of the "Analyse Vinted" handler / of search_vinted
    sel_brand,   \* sidebar: brand filter
    price_rng,   \* sidebar: <<price_min, price_max>>
    pages,       \* sidebar: pages to scrape (max_pages of the call)
    pause,       \* sidebar: pause between pages, in half seconds
    page,        \* search_vinted: loop variable
    results,     \* search_vinted: the list being built
    resp,        \* search_vinted: the response of the current page
    events,      \* history: the requests.get and time.sleep calls, in order
    shown,       \* what the handler displayed: message, stats, table
    query,       \* the search text typed
    now,         \* the clock, in seconds
    cache,       \* st.cache_data: the entries of search_vinted
    hit,         \* the current call of search_vinted was answered by the cache
    reruns,      \* how often the page was run again
    stored,      \* history: the results put into the cache, in order
    fn,          \* pure-function harness: which function is called
    args,        \* pure-function harness: its arguments
    ret          \* pure-function harness: its return value

vars == <<pc, sel_brand, price_rng, pages, pause, page, results, resp, events,
          shown, query, now, cache, hit, reruns, stored, fn, args, ret>>

appVars == <<pc, sel_brand, price_rng, pages, pause, page, results, resp,
             events, shown, query, now, cache, hit, reruns, stored>>

cacheVars == <<query, now, cache, hit, reruns, stored>>

callVars == <<fn, args, ret>>

---------------------------------------------------------------------------
(* Bounds of the model *)

MaxPages == 3      \* largest page count tried
MaxTextLen == 5    \* longest price text tried
MaxItems == 3      \* longest item list given to analyze_prices
MaxAmount == 14    \* largest price / average tried for the recommender
MaxCount == 35     \* largest listing count tried for the saturation label
MaxReruns == 1     \* how often the page is run again
MaxTicks == 2      \* the clock stops at MaxTicks times the time-to-live

---------------------------------------------------------------------------
(* Values *)

None == <<"None">>
Num(n, d) == <<"num", n, d>>
Whole(n) == Num(n, 1)
IsNum(x) == x[1] = "num"
ValueError == <<"ValueError">>
ZeroDivisionError == <<"ZeroDivisionError">>

RECURSIVE Gcd(_, _)
Gcd(a, b) == IF b = 0 THEN a ELSE Gcd(b, a % b)
Abs(n) == IF n < 0 THEN -n ELSE n

\* the rational n/d (d > 0) in lowest terms
Rat(n, d) == LET g == Gcd(Abs(n), d) IN Num(n \div g, d \div g)

RatLe(a, b) == a[2] * b[3] <= b[2] * a[3]
RatLt(a, b) == a[2] * b[3] < b[2] * a[3]
RatAdd(a, b) == Rat(a[2] * b[3] + b[2] * a[3], a[3] * b[3])
RatMul(a, b) == Rat(a[2] * b[2], a[3] * b[3])

\* Python's "/" on numbers: a zero divisor raises.
RatDiv(a, b) ==
    IF b[2] = 0 THEN ZeroDivisionError
    ELSE IF b[2] > 0 THEN Rat(a[2] * b[3], a[3] * b[2])
    ELSE Rat(-(a[2] * b[3]), a[3] * (-b[2]))

\* Python's round(x, 2): to the nearest hundredth, a tie to the even one.
Round2(x) ==
    LET n == 100 * x[2]
        d == x[3]
        q == n \div d
        r == n - q * d
        k == IF 2 * r < d THEN q
             ELSE IF 2 * r > d THEN q + 1
             ELSE IF q % 2 = 0 THEN q ELSE q + 1
    IN  Rat(k, 100)

---------------------------------------------------------------------------
(* Text *)

Digits == {"0", "1", "2", "3", "4", "5", "6", "7", "8", "9"}
Spaces == {" "}
DigitVal(ch) ==
    CASE ch = "0" -> 0 [] ch = "1" -> 1 [] ch = "2" -> 2 [] ch = "3" -> 3
      [] ch = "4" -> 4 [] ch = "5" -> 5 [] ch = "6" -> 6 [] ch = "7" -> 7
      [] ch = "8" -> 8 [] ch = "9" -> 9

RECURSIVE Pow10(_)
Pow10(k) == IF k = 0 THEN 1 ELSE 10 * Pow10(k - 1)

\* str.replace(old, new) for a one-character old; new is a text
RECURSIVE Replace(_, _, _)
Replace(t, old, new) ==
    IF t = <<>> THEN <<>>
    ELSE (IF Head(t) = old THEN new ELSE <<Head(t)>>) \o Replace(Tail(t), old, new)

\* str.strip(): leading and trailing whitespace removed
RECURSIVE LStrip(_)
LStrip(t) == IF t # <<>> /\ Head(t) \in Spaces THEN LStrip(Tail(t)) ELSE t
RECURSIVE RStrip(_)
RStrip(t) ==
    IF t # <<>> /\ t[Len(t)] \in Spaces THEN RStrip(SubSeq(t, 1, Len(t) - 1)) ELSE t
Strip(t) == RStrip(LStrip(t))

IsDigitOrPoint(ch) == ch \in Digits \/ ch = "."

\* the integer written by a sequence of digits
RECURSIVE DigitsValue(_)
DigitsValue(t) ==
    IF t = <<>> THEN 0
    ELSE 10 * DigitsValue(SubSeq(t, 1, Len(t) - 1)) + DigitVal(t[Len(t)])

\* Python's float(s) on a text of digits and points: at most one point and at
\* least one digit, else ValueError.
FloatOf(s) ==
    LET points == {i \in 1..Len(s) : s[i] = "."}
        digs   == SelectSeq(s, LAMBDA ch : ch \in Digits)
    IN  IF Cardinality(points) > 1 \/ digs = <<>>
          \/ \E i \in 1..Len(s) : ~IsDigitOrPoint(s[i])
        THEN ValueError
        ELSE LET frac == IF points = {} THEN 0
                         ELSE Len(s) - (CHOOSE i \in points : TRUE)
             IN  Rat(DigitsValue(digs), Pow10(frac))

\* lines 152-153: the price text without the euro sign, commas turned into
\* points, stripped, and only digits and points kept
CleanedMissingComma(text) ==
    SelectSeq(Strip(Replace(text, "€", <<>>)), IsDigitOrPoint)

Cleaned(text) ==
    SelectSeq(Strip(Replace(Replace(text, "€", <<>>), ",", <<".">>)),
              IsDigitOrPoint)

\* lines 152-157: the price of a price text, None when it has none
PriceOfText(text) ==
    LET cleaned == Cleaned(text)
    IN  IF cleaned = <<>> THEN None
        ELSE LET f == FloatOf(cleaned)
             IN  IF f = ValueError THEN None ELSE f

---------------------------------------------------------------------------
(* Markup.  A page body is the sequence of its container elements in       *)
(* document order; an element has one class and a sequence of descendant   *)
(* tags, each matching one of the sub-selectors.                           *)

NoTag == [sel |-> "none", text |-> <<>>, href |-> <<>>]
Tag(sel, text) == [sel |-> sel, text |-> text, href |-> <<>>]
Anchor(href) == [sel |-> "a[href]", text |-> <<>>, href |-> href]
Elem(cls, kids) == [cls |-> cls, kids |-> kids]

BASE == "https://www.vinted.fr"

\* soup.select(selector): the elements of that class, in document order
Select(body, cls) == SelectSeq(body, LAMBDA e : e.cls = cls)

\* it.select_one(selector) / it.find("a", href=True): the first match or None
SelectOne(it, sel) ==
    LET hits == SelectSeq(it.kids, LAMBDA k : k.sel = sel)
    IN  IF hits = <<>> THEN NoTag ELSE Head(hits)

\* Python's "x or y" on tags: a tag is truthy, None is not
OrTag(x, y) == IF x # NoTag THEN x ELSE y

\* Python's "xs or ys" on lists: the empty list is falsy
OrList(xs, ys) == IF xs # <<>> THEN xs ELSE ys

\* line 144
ItemsOf(body) ==
    OrList(Select(body, "feed-grid__item"),
           OrList(Select(body, "catalog-item"),
                  OrList(Select(body, "item"), <<>>)))

\* line 160: urljoin(base, href); an absolute href <<origin, path>> is kept
UrlJoin(base, href) == IF Len(href) = 2 THEN href ELSE <<base>> \o href

\* line 158-159 without the test of the price
KeepsNoPrice(price) == FALSE

\* lines 158-159: a listing without a price is skipped
SkipsPrice(price) == price = None

\* lines 146-161: the listings (none or one) one container element adds
ExtractItem(it) ==
    LET title_tag == OrTag(SelectOne(it, "feed-grid__item-title"),
                           OrTag(SelectOne(it, "h3"), SelectOne(it, "title")))
        price_tag == OrTag(SelectOne(it, "feed-grid__item-price"),
                           OrTag(SelectOne(it, "price"),
                                 SelectOne(it, "span[data-testid='price']")))
        link_tag  == SelectOne(it, "a[href]")
    IN  IF title_tag = NoTag \/ price_tag = NoTag \/ link_tag = NoTag
        THEN <<>>
        ELSE LET price == PriceOfText(price_tag.text)
             IN  IF SkipsPrice(price) THEN <<>>
                 ELSE << [title |-> Strip(title_tag.text),
                          price |-> price,
                          link  |-> UrlJoin(BASE, link_tag.href)] >>

\* lines 143-161: the listings of one page, in document order
RECURSIVE ExtractItems(_)
ExtractItems(items) ==
    IF items = <<>> THEN <<>>
    ELSE ExtractItem(Head(items)) \o ExtractItems(Tail(items))

ExtractListings(body) == ExtractItems(ItemsOf(body))

\* line 161: results.append, for the listings of one page
Append_results(rs, listings) == rs \o listings

---------------------------------------------------------------------------
(* Analysis *)

Stats(avg, mn, mx, count) == <<"stats", avg, mn, mx, count>>

RECURSIVE SumOf(_)
SumOf(ps) == IF ps = <<>> THEN Whole(0) ELSE RatAdd(SumOf(SubSeq(ps, 1, Len(ps) - 1)), ps[Len(ps)])

\* Python's min / max of a non-empty list: the first smallest / largest
RECURSIVE MinOf(_)
MinOf(ps) ==
    IF Len(ps) = 1 THEN ps[1]
    ELSE LET m == MinOf(SubSeq(ps, 1, Len(ps) - 1))
         IN  IF RatLt(ps[Len(ps)], m) THEN ps[Len(ps)] ELSE m
RECURSIVE MaxOf(_)
MaxOf(ps) ==
    IF Len(ps) = 1 THEN ps[1]
    ELSE LET m == MaxOf(SubSeq(ps, 1, Len(ps) - 1))
         IN  IF RatLt(m, ps[Len(ps)]) THEN ps[Len(ps)] ELSE m

RECURSIVE PricesOf(_)
PricesOf(items) ==
    IF items = <<>> THEN <<>>
    ELSE Append(PricesOf(SubSeq(items, 1, Len(items) - 1)), items[Len(items)].price)

\* line 166: the prices that are numbers, in order
NumericPrices(items) == SelectSeq(PricesOf(items), IsNum)

\* line 167 testing the items instead of the prices
NoItems(items, prices) == items = <<>>

\* line 167: not prices
NoPrices(items, prices) == prices = <<>>

\* lines 165-170; an exception of the division is the outcome of the call
analyze_prices(items) ==
    LET prices == NumericPrices(items)
    IN  IF NoPrices(items, prices) THEN None
        ELSE LET avg == RatDiv(SumOf(prices), Whole(Len(prices)))
             IN  IF avg = ZeroDivisionError THEN ZeroDivisionError
                 ELSE Stats(avg, MinOf(prices), MaxOf(prices), Len(prices))

\* line 173 testing avg < 0
AvgNegative(avg) == avg[2] < 0

\* line 173: avg <= 0
AvgNotPositive(avg) == avg[2] <= 0

\* lines 176-195 with the bounds of the bands exclusive
BandOfStrict(ratio) ==
    IF RatLt(ratio, Num(6, 10)) THEN 1
    ELSE IF RatLt(ratio, Num(10, 10)) THEN 2
    ELSE IF RatLt(ratio, Num(14, 10)) THEN 3
    ELSE 4

\* lines 176, 181, 186, 191: the branch taken, 1 to 4
BandOf(ratio) ==
    IF RatLe(ratio, Num(6, 10)) THEN 1
    ELSE IF RatLe(ratio, Num(10, 10)) THEN 2
    ELSE IF RatLe(ratio, Num(14, 10)) THEN 3
    ELSE 4

Est(avg, factor) == Round2(RatMul(avg, factor))

\* lines 172-196
resale_estimate_and_label(price, avg) ==
    IF AvgNotPositive(avg) THEN <<"Inconnu", 0, <<Whole(0), Whole(0)>>, "Inconnu">>
    ELSE LET ratio == RatDiv(price, avg)
         IN  IF ratio = ZeroDivisionError THEN ZeroDivisionError
             ELSE CASE BandOf(ratio) = 1 ->
                         <<"Revente rapide", 90,
                           <<Est(avg, Num(9, 10)), Est(avg, Num(11, 10))>>,
                           "1-7 jours">>
                    [] BandOf(ratio) = 2 ->
                         <<"Bonne revente", 75,
                           <<Est(avg, Num(95, 100)), Est(avg, Num(125, 100))>>,
                           "7-21 jours">>
                    [] BandOf(ratio) = 3 ->
                         <<"Vente lente", 50,
                           <<Est(avg, Num(9, 10)), Est(avg, Num(13, 10))>>,
                           "2-6 semaines">>
                    [] OTHER ->
                         <<"Vente très lente", 25,
                           <<Est(avg, Num(8, 10)), Est(avg, Num(11, 10))>>,
                           "1-3 mois">>

\* lines 198-204 with the first bound inclusive
market_saturation_label_le(count) ==
    IF count <= 10 THEN "Peu saturé"
    ELSE IF count < 30 THEN "Moyennement saturé"
    ELSE "Très saturé"

\* lines 198-204
market_saturation_label(count) ==
    IF count < 10 THEN "Peu saturé"
    ELSE IF count < 30 THEN "Moyennement saturé"
    ELSE "Très saturé"

---------------------------------------------------------------------------
(* Inputs: the pages the marketplace may answer with *)

Txt10 == <<"1", "0", ",", "0", "0", " ", "€">>
Txt20 == <<"2", "0", " ", "€">>
Txt30 == <<"3", "0", ".", "0", "0">>
Txt0 == <<"0", " ", "€">>
TxtTwoPoints == <<"1", ".", "2", "3", "4", ",", "5", "0", " ", "€">>
TxtNoDigit == <<" ", "€", " ">>
Txt5 == <<"5", ",", "5", "€">>

E10 == Elem("feed-grid__item",
            <<Tag("feed-grid__item-title", <<" ", "Nike", "Air", " ">>),
              Tag("feed-grid__item-price", Txt10), Anchor(<<"/items/10">>)>>)
E20 == Elem("feed-grid__item",
            <<Tag("h3", <<"Adidas">>), Tag("title", <<"Zara">>),
              Tag("price", Txt20), Anchor(<<BASE, "/items/20">>)>>)
E30 == Elem("feed-grid__item",
            <<Tag("title", <<"NIKE", "Dunk">>),
              Tag("span[data-testid='price']", Txt30), Anchor(<<"/items/30">>)>>)
EZero == Elem("feed-grid__item",
              <<Tag("h3", <<"Vans">>), Tag("price", Txt0), Anchor(<<"/items/0">>)>>)
ETwoPoints == Elem("feed-grid__item",
                   <<Tag("h3", <<"Chanel">>), Tag("price", TxtTwoPoints),
                     Anchor(<<"/items/1234">>)>>)
ENoDigit == Elem("catalog-item",
                 <<Tag("h3", <<"Zara">>), Tag("price", TxtNoDigit),
                   Anchor(<<"/items/x">>)>>)
ECat == Elem("catalog-item",
             <<Tag("h3", <<"nike", "Tee">>), Tag("price", Txt5),
               Anchor(<<"/items/5">>)>>)
EItem == Elem("item",
              <<Tag("title", <<"Vans">>), Tag("price", Txt20),
                Anchor(<<"/items/7">>)>>)
ENoLink == Elem("item", <<Tag("title", <<"Vans">>), Tag("price", Txt10)>>)

Bodies == { <<>>,
            <<E10, E20, E30>>,
            <<EZero, ETwoPoints, ECat>>,
            <<ENoDigit, EItem, ECat>>,
            <<ENoLink, EItem>> }

BadStatuses == {403, 500}
BrandChoices == {"All", "Nike"}
PriceRanges == {<<0, 200>>, <<0, 25>>}
PauseChoices == {1, 2}

---------------------------------------------------------------------------
(* The "Analyse Vinted" page *)

Lower(w) == CASE w = "Nike" -> "nike" [] w = "NIKE" -> "nike" [] OTHER -> w

\* line 291: str.contains(brand, case=False); a title is a sequence of
\* words and a brand is one word
Contains(title, brand) == \E i \in 1..Len(title) : Lower(title[i]) = Lower(brand)

\* lines 290-291
BrandFilter(df, brand) ==
    IF brand # "All" THEN SelectSeq(df, LAMBDA r : Contains(r.title, brand)) ELSE df

\* line 293
PriceFilter(df, rng) ==
    SelectSeq(df, LAMBDA r : RatLe(Whole(rng[1]), r.price) /\ RatLe(r.price, Whole(rng[2])))

\* lines 290-293 without the filters
NoFilter(df, brand, rng) == df

\* lines 288-293: the filtered frame
Filtered(df, brand, rng) == PriceFilter(BrandFilter(df, brand), rng)

\* lines 300-305: the resale columns of every row
Annotate(df, analysis) ==
    [i \in 1..Len(df) |->
        [item |-> df[i],
         resale |-> IF analysis # None
                    THEN resale_estimate_and_label(df[i].price, analysis[2])
                    ELSE None]]

NothingShown == [msg |-> "", analysis |-> None, saturation |-> "", table |-> <<>>]

\* lines 285-309: what the handler shows for the items the search returned
Display(items, brand, rng) ==
    IF items = <<>>
    THEN [NothingShown EXCEPT !.msg = "Aucun résultat."]
    ELSE LET df == Filtered(items, brand, rng)
             analysis == analyze_prices(df)
         IN  [msg |-> "Résultats prêts",
              analysis |-> analysis,
              saturation |-> IF analysis # None
                             THEN market_saturation_label(analysis[5]) ELSE "",
              table |-> Annotate(df, analysis)]

---------------------------------------------------------------------------
(* History of the calls search_vinted makes *)

GetEvent(p, raised, status, body) ==
    [op |-> "get", page |-> p, raised |-> raised, status |-> status,
     body |-> body, dur |-> 0]
SleepEvent(p, dur) ==
    [op |-> "sleep", page |-> p, raised |-> FALSE, status |-> 0,
     body |-> <<>>, dur |-> dur]

Gets == SelectSeq(events, LAMBDA e : e.op = "get")
Requests == [i \in 1..Len(Gets) |-> Gets[i].page]
Succeeded(e) == ~e.raised /\ e.status = 200

---------------------------------------------------------------------------
(* The cache of search_vinted, st.cache_data(ttl=600): an entry for each     *)
(* tuple of arguments, valid for ttl seconds from the moment it is stored   *)

TTL == 600

Queries == {"nike", "zara"}
BlankQueries == {"", " "}

\* line 280: not q.strip()
IsBlank(q) == q \in BlankQueries

\* line 132, 284: the arguments of the call are the key
Key(q, max_pages, p) == <<q, max_pages, p>>

Entry(key, value, at) == [key |-> key, value |-> value, at |-> at]

\* line 131 with an entry still valid when exactly ttl seconds old
CacheValidLe(e, t) == t - e.at <= TTL

\* line 131: ttl=600, an entry is valid less than ttl seconds
CacheValid(e, t) == t - e.at < TTL

Lookup(c, key) == CHOOSE e \in c : e.key = key

CacheHit(c, key, t) ==
    /\ \E e \in c : e.key = key
    /\ CacheValid(Lookup(c, key), t)

\* the entry of the key is replaced
Store(c, e) == {x \in c : x.key # e.key} \cup {e}

---------------------------------------------------------------------------
(* Actions *)

Pending == <<"pending">>
Returned(v) == <<"ret", v>>

NoCall == fn = "" /\ args = <<>> /\ ret = Pending

InitApp ==
    /\ pc = "idle"
    /\ sel_brand \in BrandChoices
    /\ price_rng \in PriceRanges
    /\ pages \in 1..MaxPages
    /\ pause \in PauseChoices
    /\ page = 0
    /\ results = <<>>
    /\ resp = <<>>
    /\ events = <<>>
    /\ shown = NothingShown

\* line 131: the cache is empty when the server starts
CacheEmpty ==
    /\ now = 0 /\ cache = {} /\ hit = FALSE /\ reruns = 0 /\ stored = <<>>

Init == InitApp /\ query \in Queries \cup BlankQueries /\ CacheEmpty /\ NoCall

\* lines 279-281: the button pressed with an empty search text
LaunchEmpty ==
    /\ pc = "idle" /\ IsBlank(query)
    /\ pc' = "shown"
    /\ shown' = [NothingShown EXCEPT !.msg = "Entrez une recherche."]
    /\ UNCHANGED <<sel_brand, price_rng, pages, pause, page, results, resp, events>>
    /\ UNCHANGED callVars /\ UNCHANGED cacheVars

\* lines 279-284, 131-135: the button pressed and search_vinted called; the
\* cache answers, or the body of search_vinted is entered
Launch ==
    /\ pc = "idle" /\ ~IsBlank(query)
    /\ events' = <<>>
    /\ LET key == Key(query, pages, pause)
       IN  IF CacheHit(cache, key, now)
           THEN /\ hit' = TRUE
                /\ results' = Lookup(cache, key).value
                /\ page' = 0
                /\ pc' = "return"
           ELSE /\ hit' = FALSE
                /\ results' = <<>>
                /\ page' = 1
                /\ pc' = IF 1 <= pages THEN "get" ELSE "return"
    /\ UNCHANGED <<sel_brand, price_rng, pages, pause, resp, shown>>
    /\ UNCHANGED <<query, now, cache, reruns, stored>>
    /\ UNCHANGED callVars

\* line 135: the for loop moves to the next page or ends
NextPage ==
    /\ page' = page + 1
    /\ pc' = IF page + 1 <= pages THEN "get" ELSE "return"

\* lines 138-142 with a failed page ending the loop
FailedPageBreak ==
    /\ page' = page
    /\ pc' = "return"
    /\ UNCHANGED <<results, resp>>

\* lines 139-142: continue
FailedPage ==
    /\ NextPage
    /\ UNCHANGED <<results, resp>>

\* lines 138, 141-142 with the request of a failed page made again
GetRaisesRetry ==
    /\ pc = "get"
    /\ Len(events) < 2 * MaxPages
    /\ events' = Append(events, GetEvent(page, TRUE, 0, <<>>))
    /\ UNCHANGED <<page, pc, results, resp>>
    /\ UNCHANGED <<sel_brand, price_rng, pages, pause, shown>>
    /\ UNCHANGED callVars /\ UNCHANGED cacheVars

\* lines 138, 141-142: requests.get raises
GetRaises ==
    /\ pc = "get"
    /\ events' = Append(events, GetEvent(page, TRUE, 0, <<>>))
    /\ FailedPage
    /\ UNCHANGED <<sel_brand, price_rng, pages, pause, shown>>
    /\ UNCHANGED callVars /\ UNCHANGED cacheVars

\* lines 138-140: a response whose status is not 200
GetBadStatus ==
    /\ pc = "get"
    /\ \E status \in BadStatuses :
          events' = Append(events, GetEvent(page, FALSE, status, <<>>))
    /\ FailedPage
    /\ UNCHANGED <<sel_brand, price_rng, pages, pause, shown>>
    /\ UNCHANGED callVars /\ UNCHANGED cacheVars

\* lines 138-139: a response with status 200
GetOk ==
    /\ pc = "get"
    /\ \E body \in Bodies :
          /\ events' = Append(events, GetEvent(page, FALSE, 200, body))
          /\ resp' = body
    /\ pc' = "parse"
    /\ UNCHANGED <<sel_brand, price_rng, pages, pause, page, results, shown>>
    /\ UNCHANGED callVars /\ UNCHANGED cacheVars

\* lines 143-161: the listings of the page are added to results
Parse ==
    /\ pc = "parse"
    /\ results' = Append_results(results, ExtractListings(resp))
    /\ pc' = "sleep"
    /\ UNCHANGED <<sel_brand, price_rng, pages, pause, page, resp, events, shown>>
    /\ UNCHANGED callVars /\ UNCHANGED cacheVars

\* line 162: time.sleep(pause), then the next turn of the loop
Sleep ==
    /\ pc = "sleep"
    /\ events' = Append(events, SleepEvent(page, pause))
    /\ NextPage
    /\ UNCHANGED <<sel_brand, price_rng, pages, pause, results, resp, shown>>
    /\ UNCHANGED callVars /\ UNCHANGED cacheVars

\* lines 131, 163, 284-309: search_vinted returns, a computed result is put
\* into the cache, and the handler shows the result
Analyse ==
    /\ pc = "return"
    /\ IF hit THEN UNCHANGED <<cache, stored>>
       ELSE LET e == Entry(Key(query, pages, pause), results, now)
            IN  /\ cache' = Store(cache, e)
                /\ stored' = Append(stored, e)
    /\ shown' = Display(results, sel_brand, price_rng)
    /\ pc' = "shown"
    /\ UNCHANGED <<sel_brand, price_rng, pages, pause, page, results, resp, events>>
    /\ UNCHANGED <<query, now, hit, reruns>>
    /\ UNCHANGED callVars

Next ==
    \/ LaunchEmpty
    \/ Launch
    \/ GetRaises
    \/ GetBadStatus
    \/ GetOk
    \/ Parse
    \/ Sleep
    \/ Analyse

Spec == Init /\ [][Next]_vars

---------------------------------------------------------------------------
(* Sessions with several searches: the page run again, time passing *)

InitCache ==
    /\ pc = "idle"
    /\ sel_brand = "All"
    /\ price_rng = <<0, 200>>
    /\ pages = 1
    /\ pause \in PauseChoices
    /\ page = 0
    /\ results = <<>>
    /\ resp = <<>>
    /\ events = <<>>
    /\ shown = NothingShown
    /\ query \in Queries \cup {""}
    /\ CacheEmpty
    /\ NoCall

\* lines 253, 276, 279: the script runs again on the next interaction, with
\* the search text and the pause the user has set
Rerun ==
    /\ pc = "shown"
    /\ reruns < MaxReruns
    /\ reruns' = reruns + 1
    /\ pc' = "idle"
    /\ shown' = NothingShown
    /\ query' \in Queries \cup {""}
    /\ pause' \in PauseChoices
    /\ UNCHANGED <<sel_brand, price_rng, pages, page, results, resp, events>>
    /\ UNCHANGED <<now, cache, hit, stored>>
    /\ UNCHANGED callVars

\* time passes, between two interactions or while search_vinted runs
Tick ==
    /\ pc \in {"shown", "return"}
    /\ \E d \in {TTL - 1, TTL} :
          /\ now + d <= MaxTicks * TTL
          /\ now' = now + d
    /\ UNCHANGED <<pc, sel_brand, price_rng, pages, pause, page, results, resp,
                   events, shown>>
    /\ UNCHANGED <<query, cache, hit, reruns, stored>>
    /\ UNCHANGED callVars

NextCache == Next \/ Rerun \/ Tick

SpecCache == InitCache /\ [][NextCache]_vars

---------------------------------------------------------------------------
(* The functions called on their own, on every input of a bounded set *)

PriceAlphabet == {"0", "5", ",", ".", "€", " "}
Texts == UNION {[1..n -> PriceAlphabet] : n \in 0..MaxTextLen}

Amounts == {Whole(n) : n \in (-1)..MaxAmount}
Averages == {Rat(n, d) : n \in (-2)..MaxAmount, d \in {1, 3}}

PricePool == {Whole(10), Whole(20), Rat(5, 10), Whole(0), None, <<"str", "12">>}
ItemPool == {[title |-> <<"Nike">>, price |-> p, link |-> <<BASE, "/items/1">>] :
                p \in PricePool}
ItemLists == UNION {[1..n -> ItemPool] : n \in 0..MaxItems}

Counts == (-3)..MaxCount

AppIdle ==
    /\ query = "" /\ CacheEmpty
    /\ pc = "idle"
    /\ sel_brand = "All"
    /\ price_rng = <<0, 200>>
    /\ pages = 2
    /\ pause = 2
    /\ page = 0
    /\ results = <<>>
    /\ resp = <<>>
    /\ events = <<>>
    /\ shown = NothingShown

InitCalls ==
    /\ AppIdle
    /\ ret = Pending
    /\ \/ fn = "price" /\ args \in Texts
       \/ fn = "analyze_prices" /\ args \in ItemLists
       \/ fn = "resale_estimate_and_label" /\ args \in Amounts \X Averages
       \/ fn = "market_saturation_label" /\ args \in Counts

\* lines 152-157 on one price text
CallPrice ==
    /\ fn = "price" /\ ret = Pending
    /\ ret' = Returned(PriceOfText(args))
    /\ UNCHANGED <<fn, args>> /\ UNCHANGED appVars

\* lines 165-170
CallAnalyze ==
    /\ fn = "analyze_prices" /\ ret = Pending
    /\ ret' = Returned(analyze_prices(args))
    /\ UNCHANGED <<fn, args>> /\ UNCHANGED appVars

\* lines 172-196
CallResale ==
    /\ fn = "resale_estimate_and_label" /\ ret = Pending
    /\ ret' = Returned(resale_estimate_and_label(args[1], args[2]))
    /\ UNCHANGED <<fn, args>> /\ UNCHANGED appVars

\* lines 198-204
CallSaturation ==
    /\ fn = "market_saturation_label" /\ ret = Pending
    /\ ret' = Returned(market_saturation_label(args))
    /\ UNCHANGED <<fn, args>> /\ UNCHANGED appVars

NextCalls == CallPrice \/ CallAnalyze \/ CallResale \/ CallSaturation

SpecCalls == InitCalls /\ [][NextCalls]_vars

---------------------------------------------------------------------------
(* Properties of search_vinted *)

SearchReturned ==
    /\ ~hit
    /\ pc = "return" \/ (pc = "shown" /\ shown.msg # "Entrez une recherche.")

\* the listings of page k according to the response it got
PageListings(k) ==
    LET es == SelectSeq(Gets, LAMBDA e : e.page = k)
    IN  IF es = <<>> THEN <<>>
        ELSE IF Succeeded(es[1]) THEN ExtractListings(es[1].body) ELSE <<>>

RECURSIVE ConcatPages(_)
ConcatPages(n) == IF n = 0 THEN <<>> ELSE ConcatPages(n - 1) \o PageListings(n)

\* C1: when search_vinted returns, results is the concatenation, by ascending
\* page number, of the listings of the pages whose request succeeded, each
\* page's listings in document order; a failed page adds nothing and takes
\* nothing away.
Thm_C1 ==
    SearchReturned =>
        /\ \A k \in 1..pages : \E i \in 1..Len(Gets) : Gets[i].page = k
        /\ results = ConcatPages(pages)

Wit_C1 ==
    /\ pc = "shown" /\ pages = 3 /\ Len(Gets) = 3
    /\ Succeeded(Gets[1]) /\ ~Succeeded(Gets[2]) /\ Succeeded(Gets[3])
    /\ Gets[1].body = <<E10, E20, E30>> /\ Gets[3].body = <<ENoDigit, EItem, ECat>>
    /\ Len(results) = 4
    /\ results[3].price = Whole(30) /\ results[4].price = Rat(11, 2)

\* C4 as stated: every listing of results has a strictly positive price.
Orig_C4 == \A i \in 1..Len(results) : IsNum(results[i].price) /\ results[i].price[2] > 0

\* C4 amended: every listing of results has a numeric price that is not
\* negative; a node whose price text has no digit or does not parse adds no
\* listing, a price of zero is kept.
Thm_C4 == \A i \in 1..Len(results) : IsNum(results[i].price) /\ results[i].price[2] >= 0

Wit_C4 ==
    /\ pc = "shown" /\ pages = 1 /\ Len(Gets) = 1
    /\ Gets[1].body = <<EZero, ETwoPoints, ECat>> /\ Succeeded(Gets[1])
    /\ Len(results) = 1 /\ results[1].price = Whole(0)

\* C5 as stated: between every two consecutive page requests there is a
\* sleep; in the history, no request directly follows a request.
Orig_C5 ==
    \A i \in 1..(Len(events) - 1) :
        events[i].op = "get" => events[i + 1].op # "get"

RequestsInOrder ==
    /\ \A i \in 1..Len(Requests) : Requests[i] = i
    /\ Len(Requests) <= pages
    /\ pc = "get" => Len(Requests) = page - 1 /\ page <= pages
    /\ pc \in {"parse", "sleep"} => Len(Requests) = page
    /\ SearchReturned => Len(Requests) = pages

InLoop == pc \in {"get", "parse", "sleep"}

\* what is left of the loop: three steps at most for each page not yet done
Rank ==
    CASE pc = "get"   -> 3 * (pages - page) + 3
      [] pc = "parse" -> 3 * (pages - page) + 2
      [] pc = "sleep" -> 3 * (pages - page) + 1
      [] OTHER        -> 0

\* C6: a run requests the pages 1, 2, ..., N in ascending order, each once,
\* whatever fails, and the run ends after page N: every step of the loop
\* brings the return nearer.
Thm_C6 == []RequestsInOrder /\ [][InLoop => Rank' < Rank]_vars

Wit_C6 ==
    /\ pc = "return" /\ pages = 3 /\ Requests = <<1, 2, 3>>
    /\ Gets[1].raised /\ Gets[2].status = 500 /\ Succeeded(Gets[3])

---------------------------------------------------------------------------
(* The end-to-end scenario *)

Scenario ==
    /\ pc = "shown" /\ pages = 1 /\ Len(Gets) = 1 /\ Succeeded(Gets[1])
    /\ Gets[1].body = <<E10, E20, E30>>
    /\ sel_brand = "All" /\ price_rng = <<0, 25>>

TwoRows ==
    /\ Len(shown.table) = 2
    /\ shown.table[1].item.price = Whole(10)
    /\ shown.table[2].item.price = Whole(20)

\* C3 as stated: in the scenario the table holds the listings priced 10 and
\* 20 and the one priced 10 is labelled fast resale, score 90.
Orig_C3 ==
    Scenario => /\ TwoRows
                /\ shown.table[1].resale[1] = "Revente rapide"
                /\ shown.table[1].resale[2] = 90

\* C3 amended: in the scenario the table holds the listings priced 10 and
\* 20, the average is that of the filtered set, 15, and the listing priced
\* 10 (ratio 2/3) is labelled good resale, score 75.
Thm_C3 ==
    Scenario => /\ TwoRows
                /\ shown.analysis[2] = Whole(15)
                /\ shown.analysis[5] = 2
                /\ shown.table[1].resale[1] = "Bonne revente"
                /\ shown.table[1].resale[2] = 75

Wit_C3 == Scenario /\ TwoRows /\ shown.table[1].resale[2] = 75

---------------------------------------------------------------------------
(* Properties of the functions *)

Called(f) == fn = f /\ ret # Pending
Unknown == <<"Inconnu", 0, <<Whole(0), Whole(0)>>, "Inconnu">>

\* x is a number of hundredths at most half a hundredth away from avg * num / den
Rounded(x, avg, num, den) ==
    /\ IsNum(x) /\ 100 % x[3] = 0
    /\ 200 * Abs(x[2] * avg[3] * den - avg[2] * num * x[3]) <= x[3] * avg[3] * den

BandResult(r, label, score, avg, lo, hi, days) ==
    /\ r[1] = label /\ r[2] = score /\ r[4] = days
    /\ Rounded(r[3][1], avg, lo, 100) /\ Rounded(r[3][2], avg, hi, 100)

\* C2: for an average A > 0 the result is the band of the ratio P/A, upper
\* bounds inclusive: <= 0.6 fast (90), <= 1.0 good (75), <= 1.4 slow (50),
\* above very slow (25), each with its range around A and its delay.
Thm_C2 ==
    (Called("resale_estimate_and_label") /\ args[2][2] > 0) =>
        LET P == args[1]
            A == args[2]
            r == ret[2]
            \* 10 * P / A compared with 6, 10, 14, both sides times A's numerator
            lhs == 10 * P[2] * A[3]
            one == A[2] * P[3]
        IN  /\ lhs <= 6 * one =>
                BandResult(r, "Revente rapide", 90, A, 90, 110, "1-7 jours")
            /\ (6 * one < lhs /\ lhs <= 10 * one) =>
                BandResult(r, "Bonne revente", 75, A, 95, 125, "7-21 jours")
            /\ (10 * one < lhs /\ lhs <= 14 * one) =>
                BandResult(r, "Vente lente", 50, A, 90, 130, "2-6 semaines")
            /\ 14 * one < lhs =>
                BandResult(r, "Vente très lente", 25, A, 80, 110, "1-3 mois")

Wit_C2 ==
    /\ Called("resale_estimate_and_label")
    /\ args = <<Whole(7), Whole(5)>>
    /\ ret[2][2] = 50 /\ ret[2][3] = <<Rat(45, 10), Rat(65, 10)>>

\* C9: for an average A <= 0 the result is the fixed unknown result, an
\* ordinary value: nothing is divided by A and nothing is raised.
Thm_C9 ==
    (Called("resale_estimate_and_label") /\ args[2][2] <= 0) => ret[2] = Unknown

Wit_C9 ==
    /\ Called("resale_estimate_and_label")
    /\ args = <<Whole(3), Whole(0)>> /\ ret[2] = Unknown

NumericAt(items) == {i \in 1..Len(items) : IsNum(items[i].price)}

RECURSIVE SumAt(_, _)
SumAt(items, I) ==
    IF I = {} THEN Whole(0)
    ELSE LET i == CHOOSE j \in I : TRUE
         IN  RatAdd(items[i].price, SumAt(items, I \ {i}))

\* C7: analyze_prices returns None exactly when no item has a numeric price;
\* otherwise count, min, max and avg are those of the numeric prices alone,
\* avg = sum / count lies between min and max, and no division by zero occurs.
Thm_C7 ==
    Called("analyze_prices") =>
        LET I == NumericAt(args)
            r == ret[2]
        IN  /\ r # ZeroDivisionError
            /\ (r = None) <=> (I = {})
            /\ I # {} =>
                /\ r[1] = "stats" /\ r[5] = Cardinality(I)
                /\ \E i \in I : r[3] = args[i].price
                /\ \A i \in I : RatLe(r[3], args[i].price)
                /\ \E i \in I : r[4] = args[i].price
                /\ \A i \in I : RatLe(args[i].price, r[4])
                /\ RatMul(r[2], Whole(r[5])) = SumAt(args, I)
                /\ RatLe(r[3], r[2]) /\ RatLe(r[2], r[4])

Wit_C7 ==
    /\ Called("analyze_prices") /\ Len(args) = 3
    /\ args[1].price = Whole(20) /\ args[2].price = None /\ args[3].price = Whole(10)
    /\ ret[2] = Stats(Whole(15), Whole(10), Whole(20), 2)

CommaEuroParts(t) ==
    {q \in (1..Len(t)) \X (1..Len(t)) \X (1..Len(t)) \X (1..Len(t)) :
        /\ q[1] < q[2] /\ q[2] < q[3] /\ q[3] < q[4]
        /\ \A i \in 1..(q[1] - 1) : t[i] \in Spaces
        /\ \A i \in q[1]..(q[2] - 1) : t[i] \in Digits
        /\ t[q[2]] = ","
        /\ \A i \in (q[2] + 1)..q[3] : t[i] \in Digits
        /\ \A i \in (q[3] + 1)..(q[4] - 1) : t[i] \in Spaces
        /\ t[q[4]] = "€"
        /\ \A i \in (q[4] + 1)..Len(t) : t[i] \in Spaces}

\* C8: the price of a text made of digits, a comma, digits, then a euro
\* sign, with optional spaces, is the price of the same digits written with
\* a point and nothing else, and the number those digits write.
Thm_C8 ==
    Called("price") =>
        \A q \in CommaEuroParts(args) :
            LET int  == SubSeq(args, q[1], q[2] - 1)
                frac == SubSeq(args, q[2] + 1, q[3])
            IN  /\ IsNum(ret[2])
                /\ ret[2] = PriceOfText(int \o <<".">> \o frac)
                /\ ret[2] = Rat(DigitsValue(int \o frac), Pow10(Len(frac)))

Wit_C8 ==
    /\ Called("price") /\ args = <<"5", ",", "5", " ", "€">>
    /\ CommaEuroParts(args) # {} /\ ret[2] = Rat(55, 10)

\* C10: the saturation label depends on the count alone: below 10 low, from
\* 10 to 29 medium, from 30 high.
Thm_C10 ==
    Called("market_saturation_label") =>
        /\ args < 10 => ret[2] = "Peu saturé"
        /\ (10 <= args /\ args < 30) => ret[2] = "Moyennement saturé"
        /\ args >= 30 => ret[2] = "Très saturé"
        /\ args = 9 => ret[2] = "Peu saturé"
        /\ args \in {10, 29} => ret[2] = "Moyennement saturé"
        /\ args = 30 => ret[2] = "Très saturé"

Wit_C10 == Called("market_saturation_label") /\ args = 10 /\ ret[2] = "Moyennement saturé"

---------------------------------------------------------------------------
(* Properties of the cache *)

\* the last result stored for the key, according to the history
StoredFor(key) == SelectSeq(stored, LAMBDA e : e.key = key)
LastStored(key) == StoredFor(key)[Len(StoredFor(key))]
Fresh(key) == StoredFor(key) # <<>> /\ now - LastStored(key).at < TTL

CallStep == pc = "idle" /\ pc' \in {"get", "return"}

\* C11: a call whose key was stored less than 600 s ago returns the stored
\* result and requests no page; a call whose key was never stored, or was
\* stored 600 s ago or more, runs afresh and requests its pages.
Thm_C11 ==
    /\ [](hit => pc \in {"return", "shown", "idle"} /\ (pc # "idle" => events = <<>>))
    /\ []((~hit /\ pc \in {"return", "shown"} /\ shown.msg # "Entrez une recherche.")
            => Len(Gets) = pages)
    /\ [][CallStep =>
            LET key == <<query, pages, pause>>
            IN  IF Fresh(key)
                THEN /\ hit' /\ pc' = "return" /\ events' = <<>>
                     /\ results' = LastStored(key).value
                ELSE /\ ~hit' /\ pc' = "get" /\ results' = <<>>]_vars

Wit_C11 ==
    /\ hit /\ pc = "shown" /\ events = <<>>
    /\ now = TTL - 1 /\ Len(stored) = 1 /\ stored[1].at = 0
    /\ Len(results) = 3 /\ Len(shown.table) = 3

====
